---- MODULE Spec2Model ----
(***************************************************************************)
(* Model of convert_to_safetensor.py: main() resolves the directories,     *)
(* checks that pytorch_model.bin is listed, and convert_file() loads the   *)
(* checkpoint, drops aliased tensors, casts to half precision, writes      *)
(* model.safetensors, checks the size drift, copies the sidecar files and  *)
(* verifies the round trip.                                                *)
(*                                                                         *)
(* A file name is a pair <<stem, tail>> whose text is stem \o tail; tail   *)
(* is the last dotted extension ("" when there is none), which is all that *)
(* str.endswith('.bin') and str.endswith('.py') read.  A path string is a  *)
(* record [given, pad, path, slash]: given = FALSE is Python's None (the   *)
(* flag was not passed), pad is surrounding whitespace, path the sequence  *)
(* of names and slash a trailing "/".  The file system is the set dirs of  *)
(* directory paths and the function files from file paths to contents.     *)
(* Symbolic links, hard links and I/O faults other than the ones named     *)
(* below are outside the model.                                            *)
(***************************************************************************)
EXTENDS Integers, Sequences, FiniteSets, TLC

VARIABLES
    pc,        \* position in main() / convert_file()
    err,       \* the exception that ended the run: [type, key]
    src_arg,   \* args.src_directory as passed
    dest_arg,  \* args.dest_directory as passed
    src_dir,   \* main's src_dir after strip()
    dest_dir,  \* main's dest_dir after strip() and defaulting
    dirs,      \* directories of the file system
    files,     \* regular files of the file system: path -> content
    loaded,    \* convert_file's `loaded` mapping, in insertion order
    reloaded,  \* convert_file's `reloaded` mapping
    sf_size,   \* check_file_size's sf_size
    pt_size,   \* check_file_size's pt_size
    dirs0,     \* history: dirs when main started
    files0,    \* history: files when main started
    copied,    \* history: names copied by copy_remaining_files in this run
    writes     \* history: paths this run opened for writing

vars == <<pc, err, src_arg, dest_arg, src_dir, dest_dir, dirs, files, loaded,
          reloaded, sf_size, pt_size, dirs0, files0, copied, writes>>

---------------------------------------------------------------------------
(* Bounds of the model. *)

\* most tensors in a checkpoint of the alias-resolution runs
MaxTensors == 3
\* most tensors in a checkpoint of the full-pipeline runs
MaxNames == 2
\* largest |sf_size - pt_size| the container writer is let produce
MaxDrift == 3

---------------------------------------------------------------------------
(* Names, strings and paths. *)

Name(stem, tail) == <<stem, tail>>

PYTORCH_MODEL_BIN == Name("pytorch_model", ".bin")
MODEL_SAFETENSORS == Name("model", ".safetensors")
SUFFIX == "_safetensors"

endswith(name, suffix) == name[2] = suffix

\* name + suffix for a suffix without a dot
concat(name, suffix) ==
    IF name[2] = "" THEN Name(name[1] \o suffix, "")
    ELSE Name(name[1], name[2] \o suffix)

None == [given |-> FALSE, pad |-> FALSE, path |-> <<>>, slash |-> FALSE]
Str(path, slash, pad) == [given |-> TRUE, pad |-> pad, path |-> path, slash |-> slash]
EmptyStr == Str(<<>>, FALSE, FALSE)

strip(s) == [s EXCEPT !.pad = FALSE]
normpath(s) == [s EXCEPT !.slash = FALSE]
basename(s) == IF s.slash \/ s.path = <<>> THEN Name("", "") ELSE s.path[Len(s.path)]
join(s, name) == [s EXCEPT !.path = Append(@, name), !.slash = FALSE]
dirname(s) ==
    IF s.slash THEN [s EXCEPT !.slash = FALSE]
    ELSE [s EXCEPT !.path = SubSeq(@, 1, Len(@) - 1)]

\* the file-system object a path string denotes
Resolve(s) == s.path

Prefixes(p) == {SubSeq(p, 1, n) : n \in 0..Len(p)}

listdir(d) ==
    {p[Len(p)] : p \in {q \in dirs \cup DOMAIN files :
                          Len(q) = Len(d) + 1 /\ SubSeq(q, 1, Len(d)) = d}}
isfile(p) == p \in DOMAIN files

---------------------------------------------------------------------------
(* Tensors and file contents. *)

\* A tensor is [name, ptr, val]: ptr = <<storage, offset>> is what data_ptr()
\* tells apart (the storage's address plus the view's offset); val stands for
\* its values: "fine" needs more than half precision, "coarse" does not,
\* "nan" holds a NaN.
Entry(n, p, v) == [name |-> n, ptr |-> p, val |-> v]
data_ptr(e) == e.ptr
storage(e) == e.ptr[1]

half(v) == IF v = "fine" THEN "coarse" ELSE v

\* torch.equal: same values elementwise, and NaN is not equal to NaN
torch_equal(v, w) == v = w /\ v # "nan"

Pickle(entries) == [kind |-> "pickle", tensors |-> entries, tag |-> ""]
Container(entries) == [kind |-> "safetensors", tensors |-> entries, tag |-> "pt"]
Text(name) == [kind |-> "text", tensors |-> <<>>, tag |-> name[1] \o name[2]]

Names(m) == {m[i].name : i \in 1..Len(m)}
Lookup(m, n) == m[CHOOSE i \in 1..Len(m) : m[i].name = n]

---------------------------------------------------------------------------
(* get_shared_weights and the removal loop of convert_file. *)

\* the keys of tmp, in the order the loop over tensors.items() creates them
RECURSIVE tmp_keys(_)
tmp_keys(tensors) ==
    IF tensors = <<>> THEN <<>>
    ELSE LET front == tmp_keys(SubSeq(tensors, 1, Len(tensors) - 1))
             k == data_ptr(tensors[Len(tensors)])
         IN  IF \E i \in 1..Len(front) : front[i] = k THEN front
             ELSE Append(front, k)

\* tmp[k]: the names appended under key k, in insertion order
tmp_names(tensors, k) ==
    LET hit == SelectSeq(tensors, LAMBDA e : data_ptr(e) = k)
    IN  [i \in 1..Len(hit) |-> hit[i].name]

get_shared_weights(tensors) ==
    LET keys == tmp_keys(tensors)
        tmp == [i \in 1..Len(keys) |-> tmp_names(tensors, keys[i])]
    IN  SelectSeq(tmp, LAMBDA names : Len(names) > 1)

\* mutant: shared_weights[:-1], the last member of a group is kept
redundant_but_last(shared_) ==
    UNION {{shared_[i][j] : j \in 1..(Len(shared_[i]) - 1)} : i \in 1..Len(shared_)}

\* mutant: shared_weights[1:2], only the second member of a group is removed
redundant_second(shared_) ==
    {shared_[i][2] : i \in 1..Len(shared_)}

\* the names the loop pops: shared_weights[1:] of every group
redundant(shared_) ==
    UNION {{shared_[i][j] : j \in 2..Len(shared_[i])} : i \in 1..Len(shared_)}

pop_all(mapping, names) == SelectSeq(mapping, LAMBDA e : e.name \notin names)

\* lines 56-62 as a function of the mapping
resolve_aliases(mapping) == pop_all(mapping, redundant(get_shared_weights(mapping)))

\* line 67: {k: v.contiguous().half() for k, v in loaded.items()}
normalize(mapping) ==
    [i \in 1..Len(mapping) |-> [mapping[i] EXCEPT !.val = half(@)]]

---------------------------------------------------------------------------
(* check_file_size and copy_remaining_files. *)

\* mutant: a bound of 10% instead of 1%
drift_exceeded_ten_percent(sf, pt) == 10 * (sf - pt) > pt

\* mutant: the difference taken the other way round
drift_exceeded_reversed(sf, pt) == 100 * (pt - sf) > pt

\* (sf_size - pt_size) / pt_size > 0.01, for pt_size > 0.  The quotient of two
\* integers is correctly rounded and so is the literal 0.01: for sizes below
\* 2^53 / 100 the comparison of doubles agrees with the exact one.
drift_exceeded(sf, pt) == 100 * (sf - pt) > pt

\* mutant: only '.py' is excluded
skipped_py_only(file) == endswith(file, ".py")

\* file.endswith('.bin') or file.endswith('.py')
skipped(file) == endswith(file, ".bin") \/ endswith(file, ".py")

\* the files copy_remaining_files copies from source_folder
remaining_files(source_folder) ==
    {file \in listdir(source_folder) :
        isfile(Append(source_folder, file)) /\ ~skipped(file)}

---------------------------------------------------------------------------
(* The inputs: the command line, the file system and the checkpoint. *)

DATA == Name("data", "")
FOO == Name("foo", "")
OUT == Name("out", "")
SUB == Name("sub", "")
CONFIG_JSON == Name("config", ".json")
TRAINING_ARGS_BIN == Name("training_args", ".bin")
MODELING_PY == Name("modeling", ".py")
NOTES_TXT == Name("notes", ".txt")
OLD_TXT == Name("old", ".txt")

SrcPath == <<DATA, FOO>>
OutPath == <<OUT>>

\* entries the source directory may hold besides pytorch_model.bin
Optional == {CONFIG_JSON, TRAINING_ARGS_BIN, MODELING_PY, SUB}

\* --dest_directory: not passed, empty, blank, another directory, the source
\* directory itself, a directory inside the source directory
DestArgs ==
    {None, EmptyStr, Str(<<>>, FALSE, TRUE), Str(OutPath, TRUE, TRUE),
     Str(SrcPath, FALSE, FALSE), Str(Append(SrcPath, SUB), FALSE, FALSE)}

Vals == {"fine", "coarse", "nan"}
Storages == {1, 2}
Offsets == {0, 1}

\* mappings of at most n tensors with distinct names 1..n, in any insertion
\* order; two tensors with one data pointer read the same memory
Checkpoints(n, ptrs, vals) ==
    UNION {{m \in [1..k -> [name : 1..n, ptr : ptrs, val : vals]] :
              \A i, j \in 1..k :
                 /\ (i # j => m[i].name # m[j].name)
                 /\ (m[i].ptr = m[j].ptr => m[i].val = m[j].val)} : k \in 0..n}

\* the spec's scenario: "w2" is a storage alias of "w1"
Scenario == <<Entry(1, <<1, 0>>, "fine"), Entry(2, <<1, 0>>, "fine")>>

\* what an earlier run on the same checkpoint left as model.safetensors
Converted(ckpt) ==
    LET m == normalize(resolve_aliases(ckpt))
    IN  Container([i \in 1..Len(m) |-> [name |-> m[i].name, val |-> m[i].val]])

NoErr == [type |-> "", key |-> 0]

\* The state when main() starts.  bin: pytorch_model.bin is "absent", a "file"
\* or a "dir"; opt: the optional source entries present; stale: the source
\* holds no model.safetensors ("none"), one converted earlier ("same") or an
\* empty container ("empty"); out: /out is "absent", "empty" or holds old.txt.
InitWith(srcStr, destStr, bin, opt, stale, out, ckpt) ==
    LET d == {<<>>, <<DATA>>, SrcPath}
             \cup (IF bin = "dir" THEN {Append(SrcPath, PYTORCH_MODEL_BIN)} ELSE {})
             \cup (IF SUB \in opt THEN {Append(SrcPath, SUB)} ELSE {})
             \cup (IF out # "absent" THEN {OutPath} ELSE {})
        fp == (IF bin = "file" THEN {Append(SrcPath, PYTORCH_MODEL_BIN)} ELSE {})
              \cup {Append(SrcPath, n) : n \in opt \ {SUB}}
              \cup (IF SUB \in opt THEN {<<DATA, FOO, SUB, NOTES_TXT>>} ELSE {})
              \cup (IF stale # "none" THEN {Append(SrcPath, MODEL_SAFETENSORS)} ELSE {})
              \cup (IF out = "stale" THEN {Append(OutPath, OLD_TXT)} ELSE {})
        f == [p \in fp |->
                IF p[Len(p)] = PYTORCH_MODEL_BIN THEN Pickle(ckpt)
                ELSE IF p[Len(p)] = MODEL_SAFETENSORS
                     THEN (IF stale = "same" THEN Converted(ckpt) ELSE Container(<<>>))
                     ELSE Text(p[Len(p)])]
    IN  /\ pc = "main"
        /\ err = NoErr
        /\ src_arg = srcStr
        /\ dest_arg = destStr
        /\ src_dir = None
        /\ dest_dir = None
        /\ dirs = d
        /\ files = f
        /\ loaded = <<>>
        /\ reloaded = <<>>
        /\ sf_size = 0
        /\ pt_size = 0
        /\ dirs0 = d
        /\ files0 = f
        /\ copied = {}
        /\ writes = {}

\* every file system and command line, with the scenario's checkpoint
InitFiles ==
    \E slash \in BOOLEAN, destStr \in DestArgs, bin \in {"absent", "file", "dir"},
       opt \in SUBSET Optional, stale \in {"none", "same", "empty"},
       out \in {"absent", "empty", "stale"} :
        /\ (out # "absent" => destStr.path = OutPath)
        /\ InitWith(Str(SrcPath, slash, FALSE), destStr, bin, opt, stale, out, Scenario)

\* every checkpoint of unaliased tensors, in the scenario's directories
InitValues ==
    \E ckpt \in Checkpoints(MaxNames, {<<s, 0>> : s \in 1..MaxNames}, Vals) :
        /\ \A i \in 1..Len(ckpt) : ckpt[i].ptr = <<ckpt[i].name, 0>>
        /\ InitWith(Str(SrcPath, FALSE, FALSE), Str(OutPath, FALSE, FALSE), "file",
                    {CONFIG_JSON}, "none", "absent", ckpt)

\* --src_directory not passed
InitNoSource ==
    \E destStr \in DestArgs :
        InitWith(None, destStr, "file", {CONFIG_JSON}, "none", "absent", Scenario)

Init == InitFiles \/ InitValues \/ InitNoSource

\* every aliasing pattern, in the scenario's directories
InitAlias ==
    \E ckpt \in Checkpoints(MaxTensors, Storages \X Offsets, {"fine"}) :
        InitWith(Str(SrcPath, FALSE, FALSE), Str(OutPath, FALSE, FALSE), "file",
                 {CONFIG_JSON}, "none", "absent", ckpt)

---------------------------------------------------------------------------
(* main() and convert_file(), one action per step. *)

Raise(type, key) ==
    /\ pc' = "failed"
    /\ err' = [type |-> type, key |-> key]

\* main's arguments to convert_file, and convert_file's two directories
pt_filename == join(src_dir, PYTORCH_MODEL_BIN)
sf_filename == join(dest_dir, MODEL_SAFETENSORS)
source_folder == Resolve(dirname(pt_filename))
destination_folder == Resolve(dirname(sf_filename))

\* mutant: the container is written over the file that was read
save_target_input == Resolve(pt_filename)

\* the file save_file writes
save_target == Resolve(sf_filename)

\* lines 100-108: strip() of both arguments (None has no strip), then the
\* default destination <src_dir>/<base name>_safetensors for an empty one
ParseArgs ==
    /\ pc = "main"
    /\ IF ~src_arg.given \/ ~dest_arg.given
       THEN /\ Raise("AttributeError", 0)
            /\ UNCHANGED <<src_dir, dest_dir>>
       ELSE /\ src_dir' = strip(src_arg)
            /\ dest_dir' = IF strip(dest_arg) = EmptyStr
                           THEN join(strip(src_arg),
                                     concat(basename(normpath(strip(src_arg))), SUFFIX))
                           ELSE strip(dest_arg)
            /\ pc' = "listdir"
            /\ err' = err
    /\ UNCHANGED <<src_arg, dest_arg, dirs, files, loaded, reloaded, sf_size,
                   pt_size, dirs0, files0, copied, writes>>

\* lines 110-113
CheckSource ==
    /\ pc = "listdir"
    /\ IF PYTORCH_MODEL_BIN \notin listdir(Resolve(src_dir))
       THEN Raise("NotFound", 0)
       ELSE pc' = "torch_load" /\ err' = err
    /\ UNCHANGED <<src_arg, dest_arg, src_dir, dest_dir, dirs, files, loaded,
                   reloaded, sf_size, pt_size, dirs0, files0, copied, writes>>

\* lines 53-55: torch.load of the checkpoint (a "state_dict" wrapper is
\* unwrapped to the same mapping)
TorchLoad ==
    /\ pc = "torch_load"
    /\ IF ~isfile(Resolve(pt_filename))
       THEN Raise("IsADirectoryError", 0) /\ loaded' = loaded
       ELSE /\ loaded' = files[Resolve(pt_filename)].tensors
            /\ pc' = "shared"
            /\ err' = err
    /\ UNCHANGED <<src_arg, dest_arg, src_dir, dest_dir, dirs, files, reloaded,
                   sf_size, pt_size, dirs0, files0, copied, writes>>

\* lines 56-62
ResolveAliases ==
    /\ pc = "shared"
    /\ loaded' = resolve_aliases(loaded)
    /\ pc' = "half"
    /\ UNCHANGED <<err, src_arg, dest_arg, src_dir, dest_dir, dirs, files,
                   reloaded, sf_size, pt_size, dirs0, files0, copied, writes>>

\* line 67
Normalize ==
    /\ pc = "half"
    /\ loaded' = normalize(loaded)
    /\ pc' = "makedirs"
    /\ UNCHANGED <<err, src_arg, dest_arg, src_dir, dest_dir, dirs, files,
                   reloaded, sf_size, pt_size, dirs0, files0, copied, writes>>

\* line 70: os.makedirs(dest_dir, exist_ok=True)
MakeDirs ==
    /\ pc = "makedirs"
    /\ dirs' = dirs \cup Prefixes(destination_folder)
    /\ pc' = "save_file"
    /\ UNCHANGED <<err, src_arg, dest_arg, src_dir, dest_dir, files, loaded,
                   reloaded, sf_size, pt_size, dirs0, files0, copied, writes>>

\* line 71: save_file.  The writer and the disk are not trusted to store every
\* tensor as given: at most one is stored with other values ("corrupt").
SaveFile ==
    /\ pc = "save_file"
    /\ \E bad \in {0} \cup Names(loaded) :
          LET stored == [i \in 1..Len(loaded) |->
                           [name |-> loaded[i].name,
                            val |-> IF loaded[i].name = bad THEN "corrupt"
                                    ELSE loaded[i].val]]
          IN  files' = [p \in DOMAIN files \cup {save_target} |->
                          IF p = save_target THEN Container(stored) ELSE files[p]]
    /\ writes' = writes \cup {save_target}
    /\ pc' = "check_file_size"
    /\ UNCHANGED <<err, src_arg, dest_arg, src_dir, dest_dir, dirs, loaded,
                   reloaded, sf_size, pt_size, dirs0, files0, copied>>

\* sizes of pytorch_model.bin that os.stat may report
PtSizes == {100, 150, 300}

\* mutant: the sizes are read and the error is never raised
CheckFileSize_unchecked ==
    /\ pc = "check_file_size"
    /\ \E pt \in PtSizes, d \in -MaxDrift..MaxDrift :
          /\ pt_size' = pt
          /\ sf_size' = pt + d
    /\ pc' = "copy"
    /\ UNCHANGED <<err, src_arg, dest_arg, src_dir, dest_dir, dirs, files, loaded,
                   reloaded, dirs0, files0, copied, writes>>

\* line 72: check_file_size reads the two sizes with os.stat
CheckFileSize ==
    /\ pc = "check_file_size"
    /\ \E pt \in PtSizes, d \in -MaxDrift..MaxDrift :
          /\ pt_size' = pt
          /\ sf_size' = pt + d
          /\ IF drift_exceeded(pt + d, pt)
             THEN Raise("SizeDifference", 0)
             ELSE pc' = "copy" /\ err' = err
    /\ UNCHANGED <<src_arg, dest_arg, src_dir, dest_dir, dirs, files, loaded,
                   reloaded, dirs0, files0, copied, writes>>

\* lines 73-74: copy_remaining_files(src_dir, dest_dir); shutil.copy raises
\* SameFileError on the first file whose destination is the file itself
CopyRemainingFiles ==
    /\ pc = "copy"
    /\ LET todo == remaining_files(source_folder)
           target(file) == Append(destination_folder, file)
       IN  IF todo # {} /\ source_folder = destination_folder
           THEN /\ Raise("SameFileError", 0)
                /\ UNCHANGED <<files, copied, writes>>
           ELSE /\ files' = [p \in DOMAIN files \cup {target(file) : file \in todo} |->
                               IF \E file \in todo : p = target(file)
                               THEN files[Append(source_folder, p[Len(p)])]
                               ELSE files[p]]
                /\ copied' = todo
                /\ writes' = writes \cup {target(file) : file \in todo}
                /\ pc' = "load_file"
                /\ err' = err
    /\ UNCHANGED <<src_arg, dest_arg, src_dir, dest_dir, dirs, loaded, reloaded,
                   sf_size, pt_size, dirs0, files0>>

\* line 78
LoadFile ==
    /\ pc = "load_file"
    /\ reloaded' = files[Resolve(sf_filename)].tensors
    /\ pc' = "verify"
    /\ UNCHANGED <<err, src_arg, dest_arg, src_dir, dest_dir, dirs, files, loaded,
                   sf_size, pt_size, dirs0, files0, copied, writes>>

\* reloaded[k] raises KeyError, torch.equal may be False
differs(e) ==
    \/ e.name \notin Names(reloaded)
    \/ ~torch_equal(e.val, Lookup(reloaded, e.name).val)

\* mutant: the loop stops after the first key
first_differing_first_only ==
    IF Len(loaded) > 0 /\ differs(loaded[1]) THEN 1 ELSE 0

\* the first position of loaded.items() at which the loop raises, or 0
first_differing ==
    IF \E i \in 1..Len(loaded) : differs(loaded[i])
    THEN CHOOSE i \in 1..Len(loaded) :
            differs(loaded[i]) /\ \A j \in 1..(i - 1) : ~differs(loaded[j])
    ELSE 0

\* lines 79-81
Verify ==
    /\ pc = "verify"
    /\ IF first_differing = 0
       THEN pc' = "done" /\ err' = err
       ELSE LET e == loaded[first_differing]
            IN  Raise(IF e.name \in Names(reloaded) THEN "Mismatch" ELSE "KeyError",
                      e.name)
    /\ UNCHANGED <<src_arg, dest_arg, src_dir, dest_dir, dirs, files, loaded,
                   reloaded, sf_size, pt_size, dirs0, files0, copied, writes>>

Next ==
    \/ ParseArgs
    \/ CheckSource
    \/ TorchLoad
    \/ ResolveAliases
    \/ Normalize
    \/ MakeDirs
    \/ SaveFile
    \/ CheckFileSize
    \/ CopyRemainingFiles
    \/ LoadFile
    \/ Verify

Spec == Init /\ [][Next]_vars

\* the run up to the end of alias resolution, over every aliasing pattern
NextAlias ==
    \/ ParseArgs
    \/ CheckSource
    \/ TorchLoad
    \/ ResolveAliases

SpecAlias == InitAlias /\ [][NextAlias]_vars

---------------------------------------------------------------------------
(* What the claims speak of. *)

InputPath == Append(SrcPath, PYTORCH_MODEL_BIN)

\* the checkpoint as it was in pytorch_model.bin when main started
Checkpoint == files0[InputPath].tensors

Under(d, q) == Len(q) > Len(d) /\ SubSeq(q, 1, Len(d)) = d

\* regular files directly in the source directory when main started whose
\* names end in neither .bin nor .py
Sidecars0 ==
    {n \in {q[Len(q)] : q \in {r \in DOMAIN files0 :
                                  Len(r) = Len(SrcPath) + 1 /\ Under(SrcPath, r)}} :
        n[2] # ".bin" /\ n[2] # ".py"}

\* the destination directory was absent or empty when main started
DestFresh ==
    \A q \in dirs0 \cup DOMAIN files0 : ~Under(destination_folder, q)

Position(m, n) == CHOOSE i \in 1..Len(m) : m[i].name = n

---------------------------------------------------------------------------
(* C1, C9: alias resolution (SpecAlias). *)

C9_ResolutionIdempotent ==
    pc = "half" =>
        /\ get_shared_weights(loaded) = <<>>
        /\ resolve_aliases(loaded) = loaded

\* C9 witness: the first application removed a name and left at least two.
C9_Witness ==
    /\ pc = "half"
    /\ Len(loaded) >= 2
    /\ Len(loaded) < Len(Checkpoint)

---------------------------------------------------------------------------
(* C2, C3, C4: the size-drift check and the order of the steps (Spec). *)

\* C2 as stated: a run that completes has |sf_size - pt_size| / pt_size <= 0.01.
C2_WithinOnePercentBothWays ==
    pc = "done" =>
        /\ 100 * (sf_size - pt_size) <= pt_size
        /\ 100 * (pt_size - sf_size) <= pt_size

\* C2 amended: a run that completes has (sf_size - pt_size) / pt_size <= 0.01:
\* the output is not more than 1% larger than the input; it may be smaller by
\* any amount.
C2_NotMoreThanOnePercentLarger ==
    pc = "done" => (pt_size > 0 /\ 100 * (sf_size - pt_size) <= pt_size)

\* C2 witness: a run completed with an output more than 1% smaller.
C2_Witness ==
    /\ pc = "done"
    /\ 100 * (pt_size - sf_size) > pt_size

\* C3: once the sizes are read and the output is more than 1% larger, the run
\* has failed with the size error; at that failure the container written by
\* this run is in the destination, nothing else was written and no sidecar
\* was copied.
C3_SizeFailureAfterWriteBeforeCopy ==
    /\ 100 * (sf_size - pt_size) > pt_size =>
          (pc = "failed" /\ err.type = "SizeDifference")
    /\ err.type = "SizeDifference" =>
          /\ 100 * (sf_size - pt_size) > pt_size
          /\ isfile(Append(destination_folder, MODEL_SAFETENSORS))
          /\ files[Append(destination_folder, MODEL_SAFETENSORS)].kind = "safetensors"
          /\ writes = {Append(destination_folder, MODEL_SAFETENSORS)}
          /\ copied = {}
          /\ \A p \in DOMAIN files \ writes : p \in DOMAIN files0 /\ files[p] = files0[p]

\* C3 witness: the size error was raised in a run that had sidecars to copy
\* into another directory.
C3_Witness ==
    /\ pc = "failed"
    /\ err.type = "SizeDifference"
    /\ Sidecars0 # {}
    /\ destination_folder # SrcPath

---------------------------------------------------------------------------
(* C5, C6: the entry policy of main (Spec). *)

\* C5: with a source directory that does not list pytorch_model.bin, main
\* fails with the not-found error, and nothing has been created.
C5_MissingInputFailsDescriptively ==
    (src_arg.given /\ pc # "main"
       /\ InputPath \notin dirs0 \cup DOMAIN files0) =>
        /\ pc \in {"listdir", "failed"}
        /\ pc = "failed" => err.type = "NotFound"
        /\ dirs = dirs0
        /\ files = files0

\* C6: when --dest_directory is not passed, main does not fail on that account
\* and goes on with <src_dir>/<base name of src_dir>_safetensors.
C6_OmittedDestinationDefaults ==
    (src_arg.given /\ ~dest_arg.given /\ pc # "main") =>
        /\ err.type # "AttributeError"
        /\ Resolve(dest_dir) = Append(SrcPath, Name("foo_safetensors", ""))

---------------------------------------------------------------------------
(* C7, C8, C10: the destination, the round trip and the input file (Spec). *)

\* C7: after a successful run into a destination that was absent or empty, the
\* destination holds exactly model.safetensors and an unmodified copy of every
\* regular file directly in the source directory whose name ends in neither
\* .bin nor .py: no .bin, no .py, nothing from a source subdirectory.
C7_DestinationHoldsContainerAndSidecars ==
    (pc = "done" /\ DestFresh) =>
        /\ {q \in DOMAIN files : Under(destination_folder, q)} =
              {Append(destination_folder, n) : n \in Sidecars0 \cup {MODEL_SAFETENSORS}}
        /\ {q \in dirs : Under(destination_folder, q)} = {}
        /\ \A n \in Sidecars0 :
              files[Append(destination_folder, n)] = files0[Append(SrcPath, n)]
        /\ files[Append(destination_folder, MODEL_SAFETENSORS)].kind = "safetensors"
        /\ \A q \in DOMAIN files :
              Under(destination_folder, q) => q[Len(q)][2] \notin {".bin", ".py"}

\* C7 witness: a run succeeded into a fresh destination from a source holding
\* a sidecar, a second .bin, a .py and a subdirectory with a file.
C7_Witness ==
    /\ pc = "done"
    /\ DestFresh
    /\ Optional \subseteq listdir(SrcPath)
    /\ isfile(Append(destination_folder, CONFIG_JSON))

\* the retained tensor e was reloaded with exactly the values written
Intact(e) ==
    /\ e.name \in Names(reloaded)
    /\ Lookup(reloaded, e.name).val = e.val

\* C8: a run completes only if every retained tensor was reloaded with exactly
\* the values written; once the comparison has run with some retained tensor
\* reloaded differently, the run has failed with an error naming a retained
\* key that failed the comparison, the first such key in insertion order, and
\* unless that tensor holds a NaN its reloaded values do differ.
C8_RoundTripChecked ==
    /\ pc = "done" => \A i \in 1..Len(loaded) : Intact(loaded[i])
    /\ ((pc = "done" \/ err.type \in {"Mismatch", "KeyError"})
          /\ \E i \in 1..Len(loaded) : ~Intact(loaded[i])) =>
          /\ pc = "failed"
          /\ err.key \in Names(loaded)
          /\ LET k == Position(loaded, err.key)
             IN  /\ err.type = "KeyError" <=> err.key \notin Names(reloaded)
                 /\ loaded[k].val # "nan" => ~Intact(loaded[k])
                 /\ \A j \in 1..(k - 1) :
                       Intact(loaded[j]) /\ loaded[j].val # "nan"

\* C8 witness: the run failed naming the second retained key; the first was
\* reloaded intact.
C8_Witness ==
    /\ pc = "failed"
    /\ err.type = "Mismatch"
    /\ Len(loaded) = 2
    /\ err.key = loaded[2].name
    /\ Intact(loaded[1])
    /\ ~Intact(loaded[2])

\* C10: pytorch_model.bin is never opened for writing, changed or removed,
\* whatever the destination.
C10_InputNeverWritten ==
    InputPath \in DOMAIN files0 =>
        /\ InputPath \in DOMAIN files
        /\ files[InputPath] = files0[InputPath]
        /\ InputPath \notin writes

\* C10 witness: a run whose destination is the source directory itself wrote
\* the container there and reached the copying.
C10_Witness ==
    /\ InputPath \in DOMAIN files0
    /\ destination_folder = SrcPath
    /\ err.type = "SameFileError"
    /\ Append(SrcPath, MODEL_SAFETENSORS) \in writes

====
